---------------------------- MODULE Spec2Model ----------------------------
(*************************************************************************)
(* RLP (Recursive Length Prefix) codec of ethereumjs/rlp, src/src/index.ts *)
(*                                                                       *)
(* A byte is a number in 0..255, a Buffer a sequence of bytes, a JS      *)
(* string a sequence of character codes.  Values of the codec's dynamic  *)
(* types are records [t |-> tag, v |-> sequence]:                        *)
(*   "bytes"  Buffer / Uint8Array      v = the bytes                     *)
(*   "list"   Array                    v = the elements                  *)
(*   "num"    number                   v = <<n>>                         *)
(*   "bigint" bigint                   v = <<n>>                         *)
(*   "text"   string                   v = the character codes           *)
(*   "nil"    null / undefined         v = <<>>                          *)
(*************************************************************************)
EXTENDS Integers, Sequences, FiniteSets, TLC

VARIABLES
    op,      \* the last call made: "init", "encodeLength", "encode", "concat",
             \* "receive", "truncate", "decode", "decodeStream", "getLength"
    input,   \* the argument of the last encode / encodeLength call
    sent,    \* the Inputs whose encodings make up the buffer, in order
    wire,    \* the buffer in the caller's hands (encoder output, or the
             \* remainder left by the last stream decode)
    arg,     \* the buffer the last decode call was given
    ret,     \* what the last call returned or threw
    recv,    \* the data values pulled out of the buffer by stream decodes
    cut      \* the number of bytes of the encoding lost from the buffer's end

vars == <<op, input, sent, wire, arg, ret, recv, cut>>

-----------------------------------------------------------------------------
(* Bounds of the model *)

\* encodeLength is called with every len in 0..MaxLen
MaxLen == 4100
\* trees drawn as encode inputs have at most MaxNodes nodes
MaxNodes == 5
\* at most MaxStream encodings are concatenated into one buffer
MaxStream == 3
\* lengths read from a header are held exactly below Huge
Huge == 67108864
\* a truncated buffer has lost at most MaxCut bytes or kept at most MaxCut
MaxCut == 200

-----------------------------------------------------------------------------
(* Values *)

Bytes(s)  == [t |-> "bytes",  v |-> s]
List(s)   == [t |-> "list",   v |-> s]
Num(n)    == [t |-> "num",    v |-> <<n>>]
BigInt(n) == [t |-> "bigint", v |-> <<n>>]
Text(s)   == [t |-> "text",   v |-> s]
Nil       == [t |-> "nil",    v |-> <<>>]
NoData    == [t |-> "none",   v |-> <<>>]

Fill(n, b) == [i \in 1..n |-> b]

\* Array.prototype.slice / Buffer.slice(start, end) with 0 <= start:
\* the elements at 0-based positions start .. Min(end, length) - 1
Slice(s, start, end) ==
    IF start >= Len(s) \/ end <= start THEN <<>>
    ELSE SubSeq(s, start + 1, IF end > Len(s) THEN Len(s) ELSE end)

\* Buffer.concat(list)
RECURSIVE BufferConcat(_)
BufferConcat(list) ==
    IF list = <<>> THEN <<>> ELSE Head(list) \o BufferConcat(Tail(list))

-----------------------------------------------------------------------------
(* Strings and hexadecimal text *)

\* character codes
ChDot  == 46
ChZero == 48
ChX    == 120

HexDigit(d) == IF d < 10 THEN 48 + d ELSE 87 + d

\* the value of a hex digit character, -1 for any other character
Unhex(c) ==
    IF c >= 48 /\ c <= 57 THEN c - 48
    ELSE IF c >= 97 /\ c <= 102 THEN c - 87
    ELSE IF c >= 65 /\ c <= 70 THEN c - 55
    ELSE -1

\* Number.prototype.toString(16) of an integer n >= 0
RECURSIVE IntToString16(_)
IntToString16(n) ==
    IF n < 16 THEN <<HexDigit(n)>>
    ELSE Append(IntToString16(n \div 16), HexDigit(n % 16))

\* Number.prototype.toString(16) of the number twice/2 (an integer or an
\* integer plus one half: 0.5 is 0.8 in base 16)
NumberToString16(twice) ==
    IF twice % 2 = 0 THEN IntToString16(twice \div 2)
    ELSE IntToString16(twice \div 2) \o <<ChDot, HexDigit(8)>>

\* Buffer.from(str, 'hex'): floor(length/2) pairs of hex digits, cut at the
\* first pair that is not two hex digits
RECURSIVE BufferFromHex(_)
BufferFromHex(str) ==
    IF Len(str) < 2 THEN <<>>
    ELSE IF Unhex(str[1]) < 0 \/ Unhex(str[2]) < 0 THEN <<>>
    ELSE <<16 * Unhex(str[1]) + Unhex(str[2])>> \o BufferFromHex(Slice(str, 2, Len(str)))

\* Buffer.toString('hex')
RECURSIVE BufferToHex(_)
BufferToHex(buf) ==
    IF buf = <<>> THEN <<>>
    ELSE <<HexDigit(Head(buf) \div 16), HexDigit(Head(buf) % 16)>> \o BufferToHex(Tail(buf))

\* parseInt(v, 16) of a string of hex digits.  A JS number holds any length
\* a header can state; here every value from Huge on is held as Huge, which
\* is larger than any buffer of the model, so each comparison the decoder
\* makes with it comes out as it does in the code.
RECURSIVE ParseInt16Acc(_, _)
ParseInt16Acc(v, acc) ==
    IF v = <<>> THEN acc
    ELSE LET n == 16 * acc + Unhex(Head(v))
         IN  ParseInt16Acc(Tail(v), IF n > Huge THEN Huge ELSE n)

ParseInt16(v) == ParseInt16Acc(v, 0)

\* Buffer.from(str): the UTF-8 bytes of a string (code points below 0x800)
RECURSIVE Utf8(_)
Utf8(str) ==
    IF str = <<>> THEN <<>>
    ELSE (IF Head(str) < 128 THEN <<Head(str)>>
          ELSE <<192 + (Head(str) \div 64), 128 + (Head(str) % 64)>>) \o Utf8(Tail(str))

isHexPrefixed(str) == Len(str) > 2 /\ str[1] = ChZero /\ str[2] = ChX

stripHexPrefix(str) == IF isHexPrefixed(str) THEN Slice(str, 2, Len(str)) ELSE str

addHexPrefix(str) == IF isHexPrefixed(str) THEN str ELSE <<ChZero, ChX>> \o str

padToEven(a) == IF Len(a) % 2 = 1 THEN <<ChZero>> \o a ELSE a

\* intToHex without the padding to an even number of digits
intToHexUnpadded(integer) == IntToString16(integer)

intToHex(integer) ==
    LET hex == IntToString16(integer)
    IN  IF Len(hex) % 2 = 1 THEN <<ChZero>> \o hex ELSE hex

intToBuffer(integer) == BufferFromHex(intToHex(integer))

\* toBuffer: the byte string of a scalar Input
toBuffer(v) ==
    IF v.t = "bytes" THEN v.v
    ELSE IF v.t = "text" THEN
        IF isHexPrefixed(v.v) THEN BufferFromHex(padToEven(stripHexPrefix(v.v)))
        ELSE Utf8(v.v)
    ELSE IF v.t \in {"num", "bigint"} THEN
        IF v.v[1] = 0 THEN <<>> ELSE intToBuffer(v.v[1])
    ELSE <<>>

-----------------------------------------------------------------------------
(* Encoder *)

\* ShortLimit with the comparison written len <= 56
ShortLimitInclusive == 56 + 1
\* the length below which a length is written into the first byte
ShortLimit == 56

\* first-byte offset of byte strings
StringOffset == 128

\* ListOffset with the string offset used for lists
ListOffsetOfStrings == 64 + 64
\* first-byte offset of lists
ListOffset == 192

\* SelfLimit with the comparison written inputBuf[0] <= 128
SelfLimitInclusive == 128 + 1
\* a single byte below this value is its own encoding
SelfLimit == 128

encodeLength(len, offset) ==
    IF len < ShortLimit THEN <<len + offset>>
    ELSE LET hexLength == IntToString16(len)
             \* lLength = hexLength.length / 2, kept as twice its value
             lLength2  == Len(hexLength)
             firstByte == NumberToString16(2 * (offset + 55) + lLength2)
         IN  BufferFromHex(firstByte \o hexLength)

\* ZeroEncoding as the byte 00, which toBuffer's conversion of 0 would give
ZeroEncodingAsByte == BufferFromHex(<<48, 48>>)
\* Buffer.from('80', 'hex'): what encode returns for the number 0
ZeroEncoding == BufferFromHex(<<56, 48>>)

IsSelfEncoded(inputBuf) == Len(inputBuf) = 1 /\ inputBuf[1] < SelfLimit

RECURSIVE encode(_)
encode(input_) ==
    IF input_.t = "list" THEN
        LET output == [i \in 1..Len(input_.v) |-> encode(input_.v[i])]
            buf    == BufferConcat(output)
        IN  BufferConcat(<<encodeLength(Len(buf), ListOffset), buf>>)
    ELSE IF input_.t = "num" /\ input_.v[1] = 0 THEN ZeroEncoding
    ELSE
        LET converted ==
                IF input_.t = "text" /\ ~isHexPrefixed(input_.v) THEN Bytes(Utf8(input_.v))
                ELSE IF input_.t = "bigint" THEN Text(addHexPrefix(IntToString16(input_.v[1])))
                ELSE input_
            inputBuf == toBuffer(converted)
        IN  IF IsSelfEncoded(inputBuf) THEN inputBuf
            ELSE BufferConcat(<<encodeLength(Len(inputBuf), StringOffset), inputBuf>>)

-----------------------------------------------------------------------------
(* Results *)

Returned(shape, data, remainder) ==
    [err |-> "none", shape |-> shape, data |-> data, remainder |-> remainder]
Thrown(err) ==
    [err |-> err, shape |-> "none", data |-> NoData, remainder |-> <<>>]
NoResult == Returned("none", NoData, <<>>)

\* the messages of the errors the decoder throws
ErrSafeSlice       == "invalid RLP (safeSlice): end slice of Buffer out-of-bounds"
ErrExtraZeros      == "invalid RLP: extra zeros"
ErrSingleByte      == "invalid rlp encoding: invalid prefix, single byte < 0x80 are not prefixed"
ErrStringLenBytes  == "invalid RLP: not enough bytes for string length"
ErrStringTooShort  == "invalid RLP: expected string length to be greater than 55"
ErrListTooShort    == "invalid RLP: encoded list too short"
ErrTotalLength     == "invalid rlp: total length is larger than the data"
ErrRemainder       == "invalid remainder"

-----------------------------------------------------------------------------
(* Decoder *)

\* [err, val]: the slice, or the error thrown
safeSlice(input_, start, end) ==
    IF end > Len(input_) THEN [err |-> ErrSafeSlice, val |-> <<>>]
    ELSE [err |-> "none", val |-> Slice(input_, start, end)]

\* [err, val]: the number a string of hex digits denotes, or the error thrown
safeParseInt(v) ==
    IF Len(v) >= 2 /\ v[1] = ChZero /\ v[2] = ChZero
    THEN [err |-> ErrExtraZeros, val |-> 0]
    ELSE [err |-> "none", val |-> ParseInt16(v)]

\* safeParseInt(safeSlice(input, 1, llength).toString('hex'), 16)
ReadLength(input_, llength) ==
    LET s == safeSlice(input_, 1, llength)
    IN  IF s.err # "none" THEN [err |-> s.err, val |-> 0]
        ELSE safeParseInt(BufferToHex(s.val))

\* IsPrefixedSingleByte with the test left out
NeverPrefixedSingleByte(length, data) == FALSE
\* length === 2 && data[0] < 0x80
IsPrefixedSingleByte(length, data) == length = 2 /\ data[1] < 128

\* IsListTooShort with the comparison written length < 55
IsListTooShortBelow55(length) == length < 55
\* length < 56
IsListTooShort(length) == length < 56

\* IsTotalLengthTooLarge with the total length required to be the buffer's
IsTotalLengthNotExact(totalLength, input_) == totalLength # Len(input_)
\* IsTotalLengthTooLarge with the test left out
NeverTotalLengthTooLarge(totalLength, input_) == FALSE
\* totalLength > input.length
IsTotalLengthTooLarge(totalLength, input_) == totalLength > Len(input_)

\* SingleByteResult with the whole input returned as data
SingleByteResultWholeInput(input_) ==
    Returned("pair", Bytes(input_), Slice(input_, 1, Len(input_)))
\* { data: input.slice(0, 1), remainder: input.slice(1) }
SingleByteResult(input_) ==
    Returned("pair", Bytes(Slice(input_, 0, 1)), Slice(input_, 1, Len(input_)))

\* ShortStringData with the slice started at the header byte
ShortStringDataFromHeader(input_, length) ==
    IF input_[1] = 128 THEN [err |-> "none", val |-> <<>>]
    ELSE safeSlice(input_, 0, length)
\* firstByte === 0x80 ? Buffer.from([]) : safeSlice(input, 1, length)
ShortStringData(input_, length) ==
    IF input_[1] = 128 THEN [err |-> "none", val |-> <<>>]
    ELSE safeSlice(input_, 1, length)

\* ShortListPayload with the slice ended one byte behind the payload
ShortListPayloadOneMore(input_, length) == safeSlice(input_, 1, length + 1)
\* innerRemainder = safeSlice(input, 1, length)
ShortListPayload(input_, length) == safeSlice(input_, 1, length)

RECURSIVE _decode(_), DecodeItems(_, _), DecodeItemsKeepParsed(_, _)

\* DecodeItems with the elements parsed before an error returned as the list
DecodeItemsKeepParsed(innerRemainder, decoded) ==
    IF Len(innerRemainder) = 0 THEN [err |-> "none", val |-> decoded]
    ELSE LET d == _decode(innerRemainder)
         IN  IF d.err # "none" THEN [err |-> "none", val |-> decoded]
             ELSE DecodeItemsKeepParsed(d.remainder, Append(decoded, d.data))

\* the while loop of the two list branches: parse innerRemainder until it is
\* empty, pushing each element's data onto decoded
DecodeItems(innerRemainder, decoded) ==
    IF Len(innerRemainder) = 0 THEN [err |-> "none", val |-> decoded]
    ELSE LET d == _decode(innerRemainder)
         IN  IF d.err # "none" THEN [err |-> d.err, val |-> <<>>]
             ELSE DecodeItems(d.remainder, Append(decoded, d.data))

_decode(input_) ==
    LET firstByte == input_[1]
    IN
    \* input[0] of an empty buffer is undefined: every comparison with it is
    \* false, the last branch runs with NaN lengths and returns an empty list
    IF Len(input_) = 0 THEN Returned("pair", List(<<>>), <<>>)
    ELSE IF firstByte <= 127 THEN SingleByteResult(input_)
    ELSE IF firstByte <= 183 THEN
        LET length == firstByte - 127
            data == ShortStringData(input_, length)
        IN  IF data.err # "none" THEN Thrown(data.err)
            ELSE IF IsPrefixedSingleByte(length, data.val) THEN Thrown(ErrSingleByte)
            ELSE Returned("pair", Bytes(data.val), Slice(input_, length, Len(input_)))
    ELSE IF firstByte <= 191 THEN
        LET llength == firstByte - 182
            length == ReadLength(input_, llength)
            data == safeSlice(input_, llength, length.val + llength)
        IN  IF Len(input_) - 1 < llength THEN Thrown(ErrStringLenBytes)
            ELSE IF length.err # "none" THEN Thrown(length.err)
            ELSE IF length.val <= 55 THEN Thrown(ErrStringTooShort)
            ELSE IF data.err # "none" THEN Thrown(data.err)
            ELSE Returned("pair", Bytes(data.val),
                          Slice(input_, length.val + llength, Len(input_)))
    ELSE IF firstByte <= 247 THEN
        LET length == firstByte - 191
            innerRemainder == ShortListPayload(input_, length)
            decoded == DecodeItems(innerRemainder.val, <<>>)
        IN  IF innerRemainder.err # "none" THEN Thrown(innerRemainder.err)
            ELSE IF decoded.err # "none" THEN Thrown(decoded.err)
            ELSE Returned("pair", List(decoded.val), Slice(input_, length, Len(input_)))
    ELSE
        LET llength == firstByte - 246
            length == ReadLength(input_, llength)
            totalLength == llength + length.val
            innerRemainder == safeSlice(input_, llength, totalLength)
            decoded == DecodeItems(innerRemainder.val, <<>>)
        IN  IF length.err # "none" THEN Thrown(length.err)
            ELSE IF IsListTooShort(length.val) THEN Thrown(ErrListTooShort)
            ELSE IF IsTotalLengthTooLarge(totalLength, input_) THEN Thrown(ErrTotalLength)
            ELSE IF innerRemainder.err # "none" THEN Thrown(innerRemainder.err)
            ELSE IF decoded.err # "none" THEN Thrown(decoded.err)
            ELSE Returned("pair", List(decoded.val), Slice(input_, totalLength, Len(input_)))

\* IsEmptyInput with the test left out
NeverEmptyInput(input_) == FALSE
\* !input || input.length === 0
IsEmptyInput(input_) ==
    \/ input_.t = "nil"
    \/ input_.t \in {"num", "bigint"} /\ input_.v[1] = 0
    \/ input_.t \in {"bytes", "text", "list"} /\ Len(input_.v) = 0

\* decode without the test of the remainder
decodeAnyRemainder(input_, stream) ==
    IF IsEmptyInput(input_) THEN Returned("data", Bytes(<<>>), <<>>)
    ELSE
        LET decoded == _decode(toBuffer(input_))
        IN  IF decoded.err # "none" THEN decoded
            ELSE IF stream THEN decoded
            ELSE Returned("data", decoded.data, <<>>)

\* decode with the stream flag ignored
decodeDataOnly(input_, stream) ==
    IF IsEmptyInput(input_) THEN Returned("data", Bytes(<<>>), <<>>)
    ELSE
        LET decoded == _decode(toBuffer(input_))
        IN  IF decoded.err # "none" THEN decoded
            ELSE IF Len(decoded.remainder) # 0 THEN Thrown(ErrRemainder)
            ELSE Returned("data", decoded.data, <<>>)

\* decode with the whole buffer returned as the remainder in stream mode
decodeRemainderNotAdvanced(input_, stream) ==
    IF IsEmptyInput(input_) THEN Returned("data", Bytes(<<>>), <<>>)
    ELSE
        LET decoded == _decode(toBuffer(input_))
        IN  IF decoded.err # "none" THEN decoded
            ELSE IF stream THEN Returned("pair", decoded.data, toBuffer(input_))
            ELSE IF Len(decoded.remainder) # 0 THEN Thrown(ErrRemainder)
            ELSE Returned("data", decoded.data, <<>>)

decode(input_, stream) ==
    IF IsEmptyInput(input_) THEN Returned("data", Bytes(<<>>), <<>>)
    ELSE
        LET converted == IF input_.t = "bigint"
                         THEN Text(addHexPrefix(IntToString16(input_.v[1])))
                         ELSE input_
            inputBuffer == toBuffer(converted)
            decoded == _decode(inputBuffer)
        IN  IF decoded.err # "none" THEN decoded
            ELSE IF stream THEN decoded
            ELSE IF Len(decoded.remainder) # 0 THEN Thrown(ErrRemainder)
            ELSE Returned("data", decoded.data, <<>>)

\* getLength: a number, or an empty Buffer when there is no input
getLength(input_) ==
    IF IsEmptyInput(input_) THEN Returned("data", Bytes(<<>>), <<>>)
    ELSE
        LET converted == IF input_.t = "bigint"
                         THEN Text(addHexPrefix(IntToString16(input_.v[1])))
                         ELSE input_
            inputBuffer == toBuffer(converted)
            firstByte == inputBuffer[1]
            llength == firstByte - 246
            length == ReadLength(inputBuffer, llength)
        IN  IF firstByte <= 127 THEN Returned("number", Num(Len(inputBuffer)), <<>>)
            ELSE IF firstByte <= 183 THEN Returned("number", Num(firstByte - 127), <<>>)
            ELSE IF firstByte <= 191 THEN Returned("number", Num(firstByte - 182), <<>>)
            ELSE IF firstByte <= 247 THEN Returned("number", Num(firstByte - 191), <<>>)
            ELSE IF length.err # "none" THEN Thrown(length.err)
            ELSE Returned("number", Num(llength + length.val), <<>>)

-----------------------------------------------------------------------------
(* The inputs the calls are made with *)

\* leaves of the drawn trees: the empty string, a self-encoded byte, a byte
\* that needs a header
TreeLeaves == {Bytes(<<>>), Bytes(<<5>>), Bytes(<<128>>)}

RECURSIVE Size(_)
Size(x) ==
    IF x.t # "list" \/ x.v = <<>> THEN 1
    ELSE 1 + Size(Head(x.v)) + Size(List(Tail(x.v))) - 1

RECURSIVE Trees(_), Forests(_)
\* the trees of at most n nodes
Trees(n) ==
    IF n < 1 THEN {} ELSE TreeLeaves \cup {List(f) : f \in Forests(n - 1)}
\* the sequences of trees of at most m nodes in all
Forests(m) ==
    {<<>>} \cup UNION {{<<x>> \o f : f \in Forests(m - Size(x))} : x \in Trees(m)}

\* the byte long strings are made of.  It is the header of a 48-byte string,
\* so a parse that starts inside such a string takes 49 bytes at a time.
FillByte == 128 + 48

\* string lengths around the short/long boundary and around the lengths whose
\* hexadecimal form gains a digit
BoundaryLens == {54, 55, 56, 57, 255, 256, 257, 4095, 4096}

NestedExample ==
    List(<<List(<<>>), List(<<List(<<>>)>>), List(<<List(<<>>), List(<<List(<<>>)>>)>>)>>)

ByteStrings ==
    {Bytes(<<b>>) : b \in 0..255}
    \cup {Bytes(<<a, b>>) : a \in {0, 128}, b \in {0, 255}}
    \cup {Bytes(Fill(n, FillByte)) : n \in BoundaryLens}

ByteTrees ==
    ByteStrings
    \cup Trees(MaxNodes)
    \cup {NestedExample}
    \cup {List(<<Bytes(Fill(n, FillByte))>>) : n \in {54, 55, 56, 255, 256}}
    \cup {List(Fill(n, Bytes(<<5>>))) : n \in {55, 56}}

Scalars ==
    {Nil, Text(<<>>), Text(<<97>>), Text(<<100, 111, 103>>), Text(<<233>>),
     Text(<<ChZero, ChX, 56, 56, 102>>)}
    \cup {Num(n) : n \in {0, 1, 15, 127, 128, 255, 256, 1024}}
    \cup {BigInt(n) : n \in {0, 3, 15, 127, 128, 1024}}

Inputs ==
    ByteTrees
    \cup Scalars
    \cup {List(<<Nil>>), List(<<Num(1), Num(2), Num(3)>>), List(<<Num(0), BigInt(0)>>)}

\* the values concatenated into one stream buffer
StreamInputs ==
    {Bytes(<<1>>), Bytes(<<128>>), Bytes(Fill(56, FillByte)), Bytes(Fill(256, FillByte)),
     List(<<Bytes(<<1>>), Bytes(<<2>>), Bytes(<<3>>)>>)}

\* the big-endian bytes of n, k bytes wide
RECURSIVE Be(_, _)
Be(n, k) == IF k = 0 THEN <<>> ELSE Append(Be(n \div 256, k - 1), n % 256)

\* a list payload of m bytes: self-encoded bytes when short, else one long
\* string (header 0xb8, its length, its bytes)
RawPayload(m) ==
    IF m < 58 THEN Fill(m, 5) ELSE <<184, m - 2>> \o Fill(m - 2, FillByte)

\* a one-byte string under the header 0x81: alone, followed by another byte,
\* as the element of a list, and as an element of a list inside a list
PrefixedByteBuffers ==
    UNION {{<<129, b>>, <<129, b, 7>>, <<194, 129, b>>, <<196, 5, 194, 129, b>>} :
            b \in 0..255}

\* encodings that break a rule of the decoder
BadElements ==
    {<<129, 5>>, <<131, 1, 2>>, <<184, 5>>, <<184, 0>>, <<185, 0, 56>>,
     <<248, 0>>, <<248, 5>>, <<249, 0, 95>>, <<248, 56, 5>>, <<193>>}

\* lists with a bad element behind good ones: in a short list, in a list in
\* a list, with another element behind it, and in a long list
BadElementBuffers ==
    UNION {{<<193 + Len(e), 5>> \o e,
            <<195 + Len(e), 6, 193 + Len(e), 5>> \o e,
            <<194 + Len(e), 5>> \o e \o <<7>>,
            <<248, 54 + Len(e)>> \o Fill(54, 5) \o e} : e \in BadElements}

\* buffers received from an untrusted peer: the empty buffer, every one-byte
\* buffer, two-byte
\* buffers, and long-form headers (first byte 0xb7+k or 0xf7+k, a k-byte
\* length field stating n) followed by m bytes, m less than, equal to or
\* more than n
\* a self-encoded byte or a short string with other bytes behind it
FollowedBuffers ==
    {<<b>> \o t : b \in {0, 5, 127}, t \in {<<0>>, <<128>>, <<255, 255, 0>>}}
    \cup {<<128 + n>> \o Fill(n, FillByte) \o t :
            n \in {0, 2, 3, 55}, t \in {<<>>, <<0>>, <<255, 129>>}}

\* headers that state more bytes than the two or three given here, or that
\* are cut short themselves
OverrunElements ==
    {<<131, 1>>, <<184>>, <<184, 56, 176>>, <<185, 1>>, <<194, 5>>,
     <<248>>, <<248, 56, 5>>, <<184, 5, 5>>, <<248, 5, 5>>}

\* lists whose last element reaches past the list's end, with nothing or
\* with enough bytes behind the list
OverrunBuffers ==
    UNION {{<<192 + Len(e)>> \o e \o t,
            <<193 + Len(e), 5>> \o e \o t,
            <<248, 54 + Len(e)>> \o Fill(54, 5) \o e \o t} :
            e \in OverrunElements, t \in {<<>>, Fill(60, 5)}}

RawBuffers ==
    {<<>>}
    \cup PrefixedByteBuffers
    \cup OverrunBuffers
    \cup FollowedBuffers
    \cup BadElementBuffers
    \cup {<<b>> : b \in 0..255}
    \cup {<<h, b>> : h \in {129, 130, 184, 192, 193, 194, 248}, b \in {0, 5, 127, 128, 192}}
    \cup {<<183 + k>> \o Be(n, k) \o Fill(m, FillByte) :
            k \in {1, 2}, n \in {0, 1, 55, 56, 255, 256},
            m \in {0, 1, 54, 55, 56, 57, 255, 256, 257}}
    \cup {<<247 + k>> \o Be(n, k) \o RawPayload(m) :
            k \in {1, 2}, n \in {0, 1, 55, 56, 255, 256},
            m \in {0, 1, 54, 55, 56, 57, 255, 256, 257}}

-----------------------------------------------------------------------------
(* Calls *)

Init ==
    /\ op = "init"
    /\ input = Nil
    /\ sent = <<>>
    /\ wire = <<>>
    /\ arg = <<>>
    /\ ret = NoResult
    /\ recv = <<>>
    /\ cut = 0

\* encodeLength(len, offset)
CallEncodeLength ==
    /\ op = "init"
    /\ \E len \in 0..MaxLen, offset \in {StringOffset, ListOffset} :
        /\ input' = [t |-> "lenoff", v |-> <<len, offset>>]
        /\ ret' = Returned("buffer", Bytes(encodeLength(len, offset)), <<>>)
    /\ op' = "encodeLength"
    /\ UNCHANGED <<sent, wire, arg, recv, cut>>

\* encode(x): the caller keeps the encoding as its buffer
CallEncode ==
    /\ op = "init"
    /\ \E x \in Inputs :
        /\ input' = x
        /\ sent' = <<x>>
        /\ wire' = encode(x)
        /\ ret' = Returned("buffer", Bytes(wire'), <<>>)
    /\ op' = "encode"
    /\ UNCHANGED <<arg, recv, cut>>

\* encode(x), the encoding appended to the buffer (concatenated values)
ConcatEncode ==
    /\ op \in {"encode", "concat"}
    /\ Len(sent) < MaxStream
    /\ sent[1] \in StreamInputs
    /\ \E x \in StreamInputs :
        /\ input' = x
        /\ sent' = Append(sent, x)
        /\ ret' = Returned("buffer", Bytes(encode(x)), <<>>)
        /\ wire' = wire \o encode(x)
    /\ op' = "concat"
    /\ UNCHANGED <<arg, recv, cut>>

\* a buffer arrives from outside
Receive ==
    /\ op = "init"
    /\ \E b \in RawBuffers : wire' = b
    /\ op' = "receive"
    /\ UNCHANGED <<input, sent, arg, ret, recv, cut>>

\* the buffer reaches its reader with its last n bytes missing
Truncate ==
    /\ op = "encode"
    /\ \E n \in {m \in 1..(Len(wire) - 1) : m <= MaxCut \/ Len(wire) - m <= MaxCut} :
        /\ wire' = SubSeq(wire, 1, Len(wire) - n)
        /\ cut' = n
    /\ op' = "truncate"
    /\ UNCHANGED <<input, sent, arg, ret, recv>>

\* CallDecode with the buffer emptied by the call that read it
CallDecodeConsuming ==
    /\ op \in {"encode", "concat", "receive", "truncate"}
    /\ arg' = wire
    /\ ret' = decode(Bytes(wire), FALSE)
    /\ wire' = <<>>
    /\ op' = "decode"
    /\ UNCHANGED <<input, sent, recv, cut>>

\* decode(wire): non-stream decode of the buffer
CallDecode ==
    /\ op \in {"encode", "concat", "receive", "truncate"}
    /\ arg' = wire
    /\ ret' = decode(Bytes(wire), FALSE)
    /\ op' = "decode"
    /\ UNCHANGED <<input, sent, wire, recv, cut>>

\* decode(wire, true): the caller keeps the data and goes on with the remainder
CallDecodeStream ==
    /\ op \in {"encode", "concat", "receive", "truncate", "decodeStream"}
    /\ op = "decodeStream" => ret.shape = "pair"
    /\ arg' = wire
    /\ ret' = decode(Bytes(wire), TRUE)
    /\ IF ret'.shape = "pair"
       THEN wire' = ret'.remainder /\ recv' = Append(recv, ret'.data)
       ELSE UNCHANGED <<wire, recv>>
    /\ op' = "decodeStream"
    /\ UNCHANGED <<input, sent, cut>>

\* getLength(wire)
CallGetLength ==
    /\ op \in {"encode", "concat", "receive", "truncate"}
    /\ arg' = wire
    /\ ret' = getLength(Bytes(wire))
    /\ op' = "getLength"
    /\ UNCHANGED <<input, sent, wire, recv, cut>>

Next ==
    \/ CallEncodeLength
    \/ CallEncode
    \/ ConcatEncode
    \/ Receive
    \/ Truncate
    \/ CallDecode
    \/ CallDecodeStream
    \/ CallGetLength

Spec == Init /\ [][Next]_vars

-----------------------------------------------------------------------------
(* Definitions the properties are stated with *)

\* a tree whose leaves are byte strings and whose inner nodes are lists
RECURSIVE IsByteTree(_)
IsByteTree(x) ==
    \/ x.t = "bytes"
    \/ x.t = "list" /\ \A i \in 1..Len(x.v) : IsByteTree(x.v[i])

\* the minimal big-endian bytes of n (none for 0)
RECURSIVE MinimalBigEndian(_)
MinimalBigEndian(n) ==
    IF n = 0 THEN <<>> ELSE Append(MinimalBigEndian(n \div 256), n % 256)

\* the length header as section 4.1 of the specification words it
SpecLengthPrefix(len, offset) ==
    IF len < 56 THEN <<offset + len>>
    ELSE <<offset + 55 + Len(MinimalBigEndian(len))>> \o MinimalBigEndian(len)

\* encode(x1) ++ ... ++ encode(xn)
RECURSIVE Payload(_)
Payload(items) ==
    IF items = <<>> THEN <<>> ELSE encode(Head(items)) \o Payload(Tail(items))

\* the value of big-endian bytes (held as Huge from Huge on)
RECURSIVE BeValueAcc(_, _)
BeValueAcc(bytes, acc) ==
    IF bytes = <<>> THEN acc
    ELSE BeValueAcc(Tail(bytes),
                    IF acc >= Huge \div 256 THEN Huge ELSE 256 * acc + Head(bytes))

BeValue(bytes) == BeValueAcc(bytes, 0)

\* the k bytes after the first byte of buf
LengthField(buf, k) == SubSeq(buf, 2, 1 + k)

\* buf starts with a long-form header of first byte base+k, 1 <= k <= 8,
\* whose k-byte length field is wholly in buf
HasLengthField(buf, base) ==
    /\ buf # <<>>
    /\ buf[1] > base
    /\ buf[1] <= base + 8
    /\ Len(buf) >= 1 + (buf[1] - base)

\* the length the long-form header of buf states
StatedLength(buf, base) == BeValue(LengthField(buf, buf[1] - base))

\* the error kinds of section 6 of the specification a truncated buffer may
\* fail with: OutOfBounds (two messages) and TotalLengthExceedsBuffer
BoundsErrors == {ErrSafeSlice, ErrStringLenBytes, ErrTotalLength}

\* buf starts with a list header whose payload is wholly in buf
HasListPayload(buf) ==
    /\ buf # <<>>
    /\ \/ buf[1] >= 192 /\ buf[1] <= 247 /\ Len(buf) >= buf[1] - 191
       \/ /\ HasLengthField(buf, 247)
          /\ buf[2] # 0
          /\ StatedLength(buf, 247) >= 56
          /\ Len(buf) >= 1 + (buf[1] - 247) + StatedLength(buf, 247)

\* the payload of the list buf starts with
ListPayload(buf) ==
    IF buf[1] <= 247 THEN SubSeq(buf, 2, buf[1] - 191)
    ELSE SubSeq(buf, 2 + (buf[1] - 247), 1 + (buf[1] - 247) + StatedLength(buf, 247))

\* the error of the first element of a payload that fails to parse, "none"
\* when every element parses
RECURSIVE FirstViolation(_)
FirstViolation(payload) ==
    IF payload = <<>> THEN "none"
    ELSE LET d == _decode(payload)
         IN  IF d.err # "none" THEN d.err ELSE FirstViolation(d.remainder)

Decoded == op \in {"decode", "decodeStream"}

\* byte sequences put behind a buffer
SuffixSamples == {<<0>>, <<128>>, <<255, 5>>, <<192, 184, 56>>}

\* the spec's OutOfBounds: the two messages the code has for it
OutOfBoundsErrors == {ErrSafeSlice, ErrStringLenBytes}

\* the number of bytes, header and payload, the header at the start of the
\* non-empty buf declares; Huge when the header is cut short
DeclaredExtent(buf) ==
    IF buf[1] <= 127 THEN 1
    ELSE IF buf[1] <= 183 THEN buf[1] - 127
    ELSE IF buf[1] <= 191 THEN
        IF HasLengthField(buf, 183)
        THEN 1 + (buf[1] - 183) + StatedLength(buf, 183) ELSE Huge
    ELSE IF buf[1] <= 247 THEN buf[1] - 191
    ELSE IF HasLengthField(buf, 247)
         THEN 1 + (buf[1] - 247) + StatedLength(buf, 247) ELSE Huge

\* a long-form header whose length field is present has it minimal and
\* stating at least 56
CanonicalHeader(buf) ==
    /\ HasLengthField(buf, 183) => buf[2] # 0 /\ StatedLength(buf, 183) >= 56
    /\ HasLengthField(buf, 247) => buf[2] # 0 /\ StatedLength(buf, 247) >= 56

\* items are the values of consecutive encodings that make up payload
RECURSIVE Tiled(_, _)
Tiled(payload, items) ==
    IF payload = <<>> THEN items = <<>>
    ELSE /\ items # <<>>
         /\ DeclaredExtent(payload) <= Len(payload)
         /\ decode(Bytes(SubSeq(payload, 1, DeclaredExtent(payload))), FALSE)
                = Returned("data", Head(items), <<>>)
         /\ Tiled(SubSeq(payload, DeclaredExtent(payload) + 1, Len(payload)), Tail(items))

\* walking payload element by element, the first element that does not
\* decode declares an extent past the payload's end: 2 when it is a long
\* list with its length field present, 1 when it is anything else, 0 when
\* there is no such element.  With canonicalOnly, elements whose header is
\* not canonical do not count.
RECURSIVE Overrun(_, _)
Overrun(payload, canonicalOnly) ==
    IF payload = <<>> THEN 0
    ELSE IF DeclaredExtent(payload) > Len(payload) THEN
        IF canonicalOnly /\ ~CanonicalHeader(payload) THEN 0
        ELSE IF HasLengthField(payload, 247) THEN 2
        ELSE 1
    ELSE IF decode(Bytes(SubSeq(payload, 1, DeclaredExtent(payload))), FALSE).err # "none"
         THEN 0
    ELSE Overrun(SubSeq(payload, DeclaredExtent(payload) + 1, Len(payload)), canonicalOnly)

-----------------------------------------------------------------------------
(* Properties *)

\* C1 (round trip): when a tree of byte strings and lists has been encoded and
\* the encoding decoded in non-stream mode, the decode succeeded and returned
\* a tree equal to the one encoded.
C1_RoundTrip ==
    (op = "decode" /\ Len(sent) = 1 /\ cut = 0 /\ IsByteTree(sent[1]))
        => ret = Returned("data", sent[1], <<>>)

\* C2 (canonical uniqueness): when a non-stream decode of a buffer succeeded
\* with result t, encode(t) is that buffer.  The empty buffer, which decode
\* answers without parsing, is left out of the statement.
C2_CanonicalEncoding ==
    (op = "decode" /\ arg # <<>> /\ ret.err = "none")
        => encode(ret.data) = arg

\* C3 (length header): encodeLength(len, offset) is the single byte offset+len
\* when len < 56, and otherwise the byte offset+55+k followed by the k bytes
\* of the minimal big-endian representation of len.
C3_EncodeLength ==
    op = "encodeLength"
        => ret.data.v = SpecLengthPrefix(input.v[1], input.v[2])

\* C4 (list encoding): the encoding of a list is encodeLength(|payload|, 0xc0)
\* followed by payload, the encodings of the elements in order; the encoding
\* of [[], [[]], [[], [[]]]] is c7 c0 c1 c0 c3 c0 c1 c0.
C4_ListEncoding ==
    (op = "encode" /\ input.t = "list")
        => /\ ret.data.v = encodeLength(Len(Payload(input.v)), 192) \o Payload(input.v)
           /\ input = NestedExample
                => ret.data.v = <<199, 192, 193, 192, 195, 192, 193, 192>>

C4_Witness ==
    /\ op = "encode"
    /\ input = NestedExample
    /\ ret.data.v = <<199, 192, 193, 192, 195, 192, 193, 192>>

\* C5 (self-encoding boundary): the encoding of a one-byte string [b] is [b]
\* itself exactly when b < 0x80, and is [0x81, b] otherwise.
C5_SelfEncodingBoundary ==
    (op = "encode" /\ input.t = "bytes" /\ Len(input.v) = 1)
        => /\ (ret.data.v = input.v) <=> (input.v[1] < 128)
           /\ input.v[1] >= 128 => ret.data.v = <<129, input.v[1]>>

C5_Witness ==
    /\ op = "encode"
    /\ input = Bytes(<<128>>)
    /\ ret.data.v = <<129, 128>>

\* C6 (empty values): the number 0, the empty text, the empty byte string and
\* nil each encode to the single byte 0x80, and a nil element of a list
\* contributes the byte 0x80 to the list's payload.
C6_EmptyValues ==
    op = "encode"
        => /\ (input = Num(0) \/ input = Text(<<>>) \/ input = Bytes(<<>>) \/ input = Nil)
                => ret.data.v = <<128>>
           /\ input = List(<<Nil>>) => ret.data.v = <<193, 128>>

C6_Witness ==
    /\ op = "encode"
    /\ input = Num(0)
    /\ ret.data.v = <<128>>

\* C7 (big integer zero): the encoding of BigInt(0) is the single byte 0x80.
C7_BigIntZero ==
    (op = "encode" /\ input = BigInt(0)) => ret.data.v = <<128>>

\* C8 (short/long boundary): a 55-byte string encodes as 0xb7 and the bytes, a
\* 56-byte string as 0xb8 0x38 and the bytes; a list with a 55-byte payload
\* gets the header 0xf7, one with a 56-byte payload the header 0xf8 0x38.
C8_ShortLongBoundary ==
    op = "encode"
        => /\ (input.t = "bytes" /\ Len(input.v) = 55)
                => ret.data.v = <<183>> \o input.v
           /\ (input.t = "bytes" /\ Len(input.v) = 56)
                => ret.data.v = <<184, 56>> \o input.v
           /\ (input.t = "list" /\ Len(Payload(input.v)) = 55)
                => ret.data.v = <<247>> \o Payload(input.v)
           /\ (input.t = "list" /\ Len(Payload(input.v)) = 56)
                => ret.data.v = <<248, 56>> \o Payload(input.v)

\* a list whose payload is 56 bytes: one string of 55 bytes under its 0xb7
C8_Witness ==
    /\ op = "encode"
    /\ input = List(<<Bytes(Fill(55, FillByte))>>)
    /\ SubSeq(ret.data.v, 1, 3) = <<248, 56, 183>>
    /\ Len(ret.data.v) = 58

\* C9 (stream decode): when the buffer is the concatenation of the encodings
\* of trees x1..xn, the i-th stream decode returns xi, and the n-th leaves an
\* empty remainder.
C9_StreamDecode ==
    (/\ op = "decodeStream"
     /\ sent # <<>>
     /\ cut = 0
     /\ \A i \in 1..Len(sent) : IsByteTree(sent[i]))
        => /\ ret.err = "none"
           /\ Len(recv) <= Len(sent)
           /\ \A i \in 1..Len(recv) : recv[i] = sent[i]
           /\ Len(recv) = Len(sent) => wire = <<>>

\* C10 (trailing bytes): when the first value of a non-empty buffer parses and
\* leaves a non-empty remainder, non-stream decode throws 'invalid remainder'
\* and returns no data.
C10_TrailingBytes ==
    (/\ op = "decode"
     /\ arg # <<>>
     /\ _decode(arg).err = "none"
     /\ _decode(arg).remainder # <<>>)
        => ret = Thrown(ErrRemainder)

\* two encodings in one buffer: the second is trailing data
C10_Witness ==
    /\ op = "decode"
    /\ Len(sent) = 2
    /\ _decode(arg).err = "none"
    /\ ret.err = ErrRemainder
    /\ ret.data = NoData

\* C11 (prefixed single byte): a buffer that starts with 0x81 b, b < 0x80, at
\* top level or as an element of a list, fails to decode with 'single byte
\* < 0x80 are not prefixed'; the buffer [0x81, b] with b >= 0x80 decodes to
\* the one-byte string [b].
C11_PrefixedSingleByte ==
    (Decoded /\ Len(arg) >= 2)
        => /\ (arg[1] = 129 /\ arg[2] < 128) => ret = Thrown(ErrSingleByte)
           /\ (Len(arg) = 3 /\ SubSeq(arg, 1, 2) = <<194, 129>> /\ arg[3] < 128)
                => ret = Thrown(ErrSingleByte)
           /\ (Len(arg) = 5 /\ SubSeq(arg, 1, 4) = <<196, 5, 194, 129>> /\ arg[5] < 128)
                => ret = Thrown(ErrSingleByte)
           /\ (Len(arg) = 2 /\ arg[1] = 129 /\ arg[2] >= 128)
                => /\ ret.err = "none"
                   /\ ret.data = Bytes(<<arg[2]>>)
                   /\ ret.remainder = <<>>

C11_Witness ==
    /\ op = "decode"
    /\ arg = <<196, 5, 194, 129, 5>>
    /\ ret = Thrown(ErrSingleByte)

\* C12 (long string, short length): a buffer whose first byte is in
\* 0xb8..0xbf and whose length field is wholly present, starts with a
\* non-zero byte and states a length <= 55 fails to decode with 'expected
\* string length to be greater than 55'.
C12_LongStringShortLength ==
    (/\ Decoded
     /\ HasLengthField(arg, 183)
     /\ arg[2] # 0
     /\ StatedLength(arg, 183) <= 55)
        => ret = Thrown(ErrStringTooShort)

\* C13 (long list, short length): a buffer whose first byte is in 0xf8..0xff
\* and whose length field is wholly present, starts with a non-zero byte and
\* states a length < 56 fails to decode with 'encoded list too short',
\* whatever follows the length field.
C13_LongListShortLength ==
    (/\ Decoded
     /\ HasLengthField(arg, 247)
     /\ arg[2] # 0
     /\ StatedLength(arg, 247) < 56)
        => ret = Thrown(ErrListTooShort)

C13_Witness ==
    /\ op = "decode"
    /\ Len(arg) > 57
    /\ SubSeq(arg, 1, 2) = <<248, 55>>
    /\ ret = Thrown(ErrListTooShort)

\* C14 (list longer than the buffer): a buffer whose first byte is in
\* 0xf8..0xff, with a present, minimal length field stating a length >= 56,
\* fails to decode with 'total length is larger than the data', and returns
\* no list, when header length plus length exceeds the buffer's size.
C14_TotalLengthExceedsBuffer ==
    (/\ Decoded
     /\ HasLengthField(arg, 247)
     /\ arg[2] # 0
     /\ StatedLength(arg, 247) >= 56
     /\ 1 + (arg[1] - 247) + StatedLength(arg, 247) > Len(arg))
        => ret = Thrown(ErrTotalLength)

C14_Witness ==
    /\ op = "decodeStream"
    /\ Len(arg) = 258
    /\ SubSeq(arg, 1, 3) = <<249, 1, 0>>
    /\ ret = Thrown(ErrTotalLength)
    /\ ret.data = NoData

\* C15 (minimal length field): a long-form length field whose first byte is
\* 0x00 and whose bytes are all present is rejected with 'extra zeros', so
\* the length field of every long-form buffer the decoder accepts starts
\* with a non-zero byte.
C15_ExtraLeadingZeros ==
    (/\ Decoded
     /\ HasLengthField(arg, 183) \/ HasLengthField(arg, 247))
        => /\ arg[2] = 0 => ret = Thrown(ErrExtraZeros)
           /\ ret.err = "none" => arg[2] # 0

\* C16 (bounds rejection): decoding a non-empty proper prefix of the encoding
\* of a tree, in stream or non-stream mode, fails, and fails with an
\* out-of-bounds error or with 'total length is larger than the data'.
C16_TruncatedRejected ==
    (/\ Decoded
     /\ cut > 0
     /\ IsByteTree(sent[1])
     /\ Len(arg) + cut = Len(encode(sent[1])))
        => ret.err \in BoundsErrors

\* C17 (no partial result): when an element of a list, at any depth, fails
\* to parse, the decode call, stream or non-stream, fails with that
\* element's error and returns no data.
C17_NoPartialResult ==
    (/\ Decoded
     /\ HasListPayload(arg)
     /\ FirstViolation(ListPayload(arg)) # "none")
        => ret = Thrown(FirstViolation(ListPayload(arg)))

\* a bad element in a list in a list, behind good elements
C17_Witness ==
    /\ op = "decodeStream"
    /\ arg = <<197, 6, 195, 5, 129, 5>>
    /\ ret = Thrown(ErrSingleByte)
    /\ recv = <<>>

\* C18 (length probe): when a buffer starts with a well-formed value,
\* getLength of it is the number of bytes that value takes, header and
\* payload; getLength of the encoding of a tree is the encoding's length.
C18_LengthProbe ==
    (op = "getLength" /\ arg # <<>>)
        => /\ _decode(arg).err = "none"
                => ret = Returned("number", Num(Len(arg) - Len(_decode(arg).remainder)), <<>>)
           /\ (Len(sent) = 1 /\ cut = 0 /\ IsByteTree(sent[1]))
                => ret = Returned("number", Num(Len(arg)), <<>>)

\* C19 (stream result): a stream decode that does not fail returns a
\* (data, remainder) pair, whatever the buffer.
C19_StreamResultIsPair ==
    (op = "decodeStream" /\ ret.err = "none") => ret.shape = "pair"

\* C19 (stream result, non-empty buffers): a stream decode of a non-empty
\* buffer that does not fail returns a (data, remainder) pair, the remainder
\* being what follows the first value in the buffer.
C19_StreamResultIsPairNonEmpty ==
    (op = "decodeStream" /\ arg # <<>> /\ ret.err = "none")
        => /\ ret.shape = "pair"
           /\ ret.remainder = SubSeq(arg, Len(arg) - Len(ret.remainder) + 1, Len(arg))

C19_Witness ==
    /\ op = "decodeStream"
    /\ Len(sent) = 2
    /\ ret.shape = "pair"
    /\ ret.remainder # <<>>
    /\ ret.data = sent[1]

\* C20 (empty buffer): decode of the empty buffer returns the empty byte
\* string, not the parser's result for it, and no error.
C20_DecodeEmpty ==
    (Decoded /\ arg = <<>>) => ret = Returned("data", Bytes(<<>>), <<>>)

C20_Witness ==
    /\ op = "decode"
    /\ arg = <<>>
    /\ ret = Returned("data", Bytes(<<>>), <<>>)

\* C21 (single byte): for a non-empty buffer whose first byte is in
\* 0x00..0x7f the parser returns that one byte as data and all the bytes
\* after it as remainder, without error.
C21_SingleByte ==
    (op = "decodeStream" /\ arg # <<>> /\ arg[1] <= 127)
        => ret = Returned("pair", Bytes(<<arg[1]>>), Tail(arg))

C21_Witness ==
    /\ op = "decodeStream"
    /\ arg = <<127, 255, 255, 0>>
    /\ ret = Returned("pair", Bytes(<<127>>), <<255, 255, 0>>)

\* C22 (short string): for a buffer whose first byte f is in 0x80..0xb7 and
\* that holds at least f - 0x80 further bytes, the parser returns those
\* f - 0x80 bytes as data (none when f = 0x80) and everything after them as
\* remainder, unless f = 0x81 and the payload byte is < 0x80.
C22_ShortString ==
    (/\ op = "decodeStream"
     /\ arg # <<>>
     /\ arg[1] >= 128
     /\ arg[1] <= 183
     /\ Len(arg) >= 1 + (arg[1] - 128)
     /\ ~(arg[1] = 129 /\ arg[2] < 128))
        => ret = Returned("pair",
                          Bytes(SubSeq(arg, 2, 1 + (arg[1] - 128))),
                          SubSeq(arg, 2 + (arg[1] - 128), Len(arg)))

C22_Witness ==
    /\ op = "decodeStream"
    /\ arg = <<131>> \o Fill(3, FillByte) \o <<255, 129>>
    /\ ret = Returned("pair", Bytes(Fill(3, FillByte)), <<255, 129>>)

\* C23 (integers): the encoding of an unsigned integer n > 0, given as a
\* number or as a big integer, is the encoding of the minimal big-endian
\* byte string of n; encode(15) is 0f and encode(1024) is 82 04 00.
C23_IntegerEncoding ==
    (op = "encode" /\ input.t \in {"num", "bigint"} /\ input.v[1] > 0)
        => /\ ret.data.v = encode(Bytes(MinimalBigEndian(input.v[1])))
           /\ input.v[1] = 15 => ret.data.v = <<15>>
           /\ input.v[1] = 1024 => ret.data.v = <<130, 4, 0>>

C23_Witness ==
    /\ op = "encode"
    /\ input = BigInt(1024)
    /\ ret.data.v = <<130, 4, 0>>

C26_ElementsConfined ==
    (Decoded /\ HasListPayload(arg))
        => /\ ret.err = "none" => Tiled(ListPayload(arg), ret.data.v)
           /\ Overrun(ListPayload(arg), FALSE) # 0 => ret.err \in OutOfBoundsErrors

\* C26 (elements confined, canonical headers): as above for the tiling; an
\* element with a canonical header whose declared extent reaches past the
\* payload's end makes the decode fail with 'total length is larger than
\* the data' when it is a long list whose length field is present, and with
\* an out-of-bounds error otherwise.
C26_ElementsConfinedCanonical ==
    (Decoded /\ HasListPayload(arg))
        => /\ ret.err = "none" => Tiled(ListPayload(arg), ret.data.v)
           /\ Overrun(ListPayload(arg), TRUE) = 1 => ret.err \in OutOfBoundsErrors
           /\ Overrun(ListPayload(arg), TRUE) = 2 => ret.err = ErrTotalLength

\* a short string of three bytes in a list that ends after one of them, 60
\* bytes behind the list
C26_Witness ==
    /\ op = "decodeStream"
    /\ Len(arg) = 64
    /\ SubSeq(arg, 1, 4) = <<195, 5, 131, 1>>
    /\ ret = Thrown(ErrSafeSlice)

\* C27 (suffix independence): when a stream decode of a non-empty buffer b
\* succeeds with (d, r), a stream decode of b followed by any bytes s
\* succeeds with (d, r followed by s).
C27_SuffixIndependence ==
    (op = "decodeStream" /\ arg # <<>> /\ ret.err = "none")
        => \A s \in SuffixSamples :
                decode(Bytes(arg \o s), TRUE) = Returned("pair", ret.data, ret.remainder \o s)

\* a long list that is the whole buffer
C27_Witness ==
    /\ op = "decodeStream"
    /\ Len(arg) > 57
    /\ arg[1] = 248
    /\ ret.shape = "pair"
    /\ ret.remainder = <<>>
    /\ decode(Bytes(arg \o <<255, 5>>), TRUE) = Returned("pair", ret.data, <<255, 5>>)

\* C28 (stream and non-stream agree): on a non-empty buffer, non-stream
\* decode succeeds with d exactly when stream decode succeeds with data d
\* and an empty remainder, and when stream decode fails non-stream decode
\* fails with the same error.
C28_StreamAgreement ==
    (Decoded /\ arg # <<>>)
        => LET n == IF op = "decode" THEN ret ELSE decode(Bytes(arg), FALSE)
               s == IF op = "decodeStream" THEN ret ELSE decode(Bytes(arg), TRUE)
           IN  /\ n.err = "none" <=> (s.err = "none" /\ s.remainder = <<>>)
               /\ n.err = "none" => n = Returned("data", s.data, <<>>)
               /\ s.err # "none" => n = s

C28_Witness ==
    /\ op = "decode"
    /\ arg = <<199, 192, 193, 192, 195, 192, 193, 192>>
    /\ ret = Returned("data", NestedExample, <<>>)
    /\ decode(Bytes(arg), TRUE) = Returned("pair", NestedExample, <<>>)

\* C29 (progress and termination): a successful parse of a non-empty buffer
\* consumes at least one byte, its remainder being a strictly shorter
\* suffix of the buffer; every value parsed inside it, at any depth, takes
\* at least one of the consumed bytes; so the buffer a caller goes on
\* decoding shrinks with every call until it is empty or a call fails.
C29_Progress ==
    (op = "decodeStream" /\ arg # <<>> /\ ret.err = "none")
        => /\ Len(ret.remainder) < Len(arg)
           /\ ret.remainder = SubSeq(arg, Len(arg) - Len(ret.remainder) + 1, Len(arg))
           /\ Size(ret.data) <= Len(arg) - Len(ret.remainder)
           /\ wire = ret.remainder

\* the third value pulled out of a buffer of three, nothing left
C29_Witness ==
    /\ op = "decodeStream"
    /\ Len(sent) = 3
    /\ Len(recv) = 3
    /\ ret.shape = "pair"
    /\ wire = <<>>

=============================================================================
